---- MODULE Spec2Model ----
(***************************************************************************)
(* A model of the CANopen SDO frame codec of canopen-rs (src/src/sdo.rs),  *)
(* with the value types it operates on (NodeId, EntryId, SdoAbortCode,     *)
(* EncodedCANOpenFrame / TestFrame).                                       *)
(*                                                                         *)
(* Representation notes.                                                   *)
(*  - A u8 is a number in 0..255, a u16 a number in 0..65535.              *)
(*  - A u32 is kept as a record [hi, lo] of its two 16-bit halves, so that *)
(*    every 32-bit pattern (also those with bit 31 set) is representable.  *)
(*    The literal 0x0504_0005 is U32(\H0504, \H0005).                      *)
(*  - Option<T>: None, or the value itself when T is a record with a       *)
(*    "kind" field; Some(x) wraps values that are not records.             *)
(*  - A panic (failed unwrap, slice index out of range) is the value Fault.*)
(***************************************************************************)
EXTENDS Integers, Sequences, FiniteSets, TLC

VARIABLES
    pc,            \* what the last step did
    target_id,     \* the target identifier last given to encode_tx_frame, or None
    sdo_frame,     \* the SdoFrame last given to encode_tx_frame, or None
    frame,         \* the CAN frame last produced by the encoder or delivered by the bus
    self_node_id,  \* try_decode_rx_frame's node address argument
    node_role,     \* try_decode_rx_frame's role argument
    decoded,       \* try_decode_rx_frame's result: None, an SdoFrame, or Fault
    cmd_in,        \* the ClientCommand / ServerCommand last serialized, or None
    cmd_byte,      \* the command byte last produced or parsed
    cmd_out,       \* result of the last TryFrom<u8>: a command, or Err
    abort_in,      \* the SdoAbortCode member last given to to_le_bytes, or None
    abort_bytes,   \* the byte sequence last produced by to_le_bytes / given to from_le_bytes
    abort_out,     \* result of the last from_le_bytes: a member name, or None
    input_entries, \* the entries argument of ObjectDictionary::new, or None
    entries,       \* ObjectDictionary.entries
    lookup_id,     \* the id last given to get_mut_variable, or None
    found,         \* get_mut_variable's result: None, or Some(position borrowed)
    copied,        \* a Variable copied out through a handle, or None
    writes,        \* number of writes made through handles since construction
    cob_args,      \* the arguments of CobId::new, or None
    guts,          \* CobId.guts, or None
    cob_read,      \* what is_valid, rtr_allowed and assigned_frame_id returned, or None
    node_arg,      \* the argument of NodeId::new, or None
    node_made,     \* NodeId::new's result, Some(NodeId::default()), or None
    node_raw,      \* what raw() returned, or None
    response,      \* the SdoFrame the server answers with, or None
    response_frame,   \* the CAN frame carrying the response, or None
    response_decoded  \* the client's decode of the response frame, or None

vars == <<pc, target_id, sdo_frame, frame, self_node_id, node_role, decoded,
          cmd_in, cmd_byte, cmd_out, abort_in, abort_bytes, abort_out,
          input_entries, entries, lookup_id, found, copied, writes,
          cob_args, guts, cob_read, node_arg, node_made, node_raw,
          response, response_frame, response_decoded>>

dictVars == <<input_entries, entries, lookup_id, found, copied, writes>>
cobVars == <<cob_args, guts, cob_read>>
nodeVars == <<node_arg, node_made, node_raw>>
exchVars == <<response, response_frame, response_decoded>>
\* the state outside sdo.rs's codec functions
extVars == <<dictVars, cobVars, nodeVars, exchVars>>

codecVars == <<target_id, sdo_frame, frame, self_node_id, node_role, decoded>>
cmdVars == <<cmd_in, cmd_byte, cmd_out>>
abortVars == <<abort_in, abort_bytes, abort_out>>

----------------------------------------------------------------------------
(* Option, fault and integer helpers *)

None == [kind |-> "None"]

Fault == [kind |-> "Fault"]

Some(x) == [kind |-> "Some", val |-> x]

Pow2(k) == CASE k = 0 -> 1 [] k = 1 -> 2 [] k = 2 -> 4 [] k = 3 -> 8
             [] k = 4 -> 16 [] k = 5 -> 32 [] k = 6 -> 64 [] k = 7 -> 128
             [] k = 8 -> 256

\* value >> k on a u8
Shr(value, k) == value \div Pow2(k)

\* value << k on a u8 whose result fits the byte
Shl(value, k) == value * Pow2(k)

\* value & mask for a mask of the form 2^m - 1
AndLow(value, mask) == value % (mask + 1)

\* bit k of a u8
Bit(value, k) == (value \div Pow2(k)) % 2

\* a | b on u8
BitOr(a, b) ==
    LET or1(k) == IF Bit(a, k) = 1 \/ Bit(b, k) = 1 THEN Pow2(k) ELSE 0
    IN or1(0) + or1(1) + or1(2) + or1(3) + or1(4) + or1(5) + or1(6) + or1(7)

\* bool as u8
AsU8(b) == IF b THEN 1 ELSE 0

U32(h, l) == [hi |-> h, lo |-> l]

\* u32::to_le_bytes
u32_to_le_bytes(w) == <<w.lo % 256, w.lo \div 256, w.hi % 256, w.hi \div 256>>

\* u32::from_le_bytes on a 4-byte array
u32_from_le_bytes(b) == U32(b[4] * 256 + b[3], b[2] * 256 + b[1])

\* Rust's s[a..b] on a slice (0-based, end exclusive); SliceOk tells whether it panics
SliceOk(s, a, b) == a <= b /\ b <= Len(s)

Slice(s, a, b) == SubSeq(s, a + 1, b)

Zeros(n) == [i \in 1..n |-> 0]

----------------------------------------------------------------------------
(* SdoAbortCode: src/src/sdo.rs 8-57 *)

AbortLiteral ==
    [ ToggleBitNotAlternated   |-> U32(\H0503, \H0000),
      SDOProtocolTimedOut      |-> U32(\H0504, \H0000),
      CommandSpecifierError    |-> U32(\H0504, \H0001),
      InvalidBlockSize         |-> U32(\H0504, \H0002),
      InvalidSequenceNumber    |-> U32(\H0504, \H0003),
      CRCError                 |-> U32(\H0504, \H0004),
      OutOfMemory              |-> U32(\H0504, \H0005),
      UnsupportedAccess        |-> U32(\H0601, \H0000),
      WriteOnlyError           |-> U32(\H0601, \H0001),
      ReadOnlyError            |-> U32(\H0601, \H0002),
      ObjectDoesNotExist       |-> U32(\H0602, \H0000),
      ObjectCannotBeMapped     |-> U32(\H0604, \H0041),
      PDOOverflow              |-> U32(\H0604, \H0042),
      ParameterIncompatibility |-> U32(\H0604, \H0043),
      InternalIncompatibility  |-> U32(\H0604, \H0047),
      HardwareError            |-> U32(\H0606, \H0000),
      WrongLength              |-> U32(\H0607, \H0010),
      TooLong                  |-> U32(\H0607, \H0012),
      TooShort                 |-> U32(\H0607, \H0013),
      SubindexDoesNotExist     |-> U32(\H0609, \H0011),
      InvalidValue             |-> U32(\H0609, \H0030),
      ValueTooHigh             |-> U32(\H0609, \H0031),
      ValueTooLow              |-> U32(\H0609, \H0032),
      MaxLessThanMin           |-> U32(\H0609, \H0036),
      ResourceNotAvailable     |-> U32(\H060A, \H0023),
      GeneralError             |-> U32(\H0800, \H0000),
      TransferOrStorageError   |-> U32(\H0800, \H0020),
      LocalControlError        |-> U32(\H0800, \H0021),
      DeviceStateError         |-> U32(\H0800, \H0022),
      DictionaryError          |-> U32(\H0800, \H0023),
      NoDataAvailable          |-> U32(\H0800, \H0024) ]

\* the members of the enumeration, by name
SdoAbortCode == DOMAIN AbortLiteral

\* FromPrimitive::from_u32 as derived for the enumeration
from_u32(n) ==
    IF \E c \in SdoAbortCode : AbortLiteral[c] = n
    THEN Some(CHOOSE c \in SdoAbortCode : AbortLiteral[c] = n)
    ELSE None

from_le_bytes(bytes) ==
    IF Len(bytes) # 4 THEN None ELSE from_u32(u32_from_le_bytes(bytes))

\* to_le_bytes with the most significant byte first
to_be_bytes(code) ==
    <<AbortLiteral[code].hi \div 256, AbortLiteral[code].hi % 256,
      AbortLiteral[code].lo \div 256, AbortLiteral[code].lo % 256>>

to_le_bytes(code) == u32_to_le_bytes(AbortLiteral[code])

----------------------------------------------------------------------------
(* EntryId: declared at src/src/object_dictionary.rs 78-82; its new,        *)
(* from_bytes and to_le_bytes are used by sdo.rs but their bodies are not   *)
(* part of the sources, so they follow the documented wire form: 3 bytes,   *)
(* index low byte, index high byte, sub-index byte.                         *)

EntryId_new(index, sub_index) == [index |-> index, sub_index |-> sub_index]

EntryId_to_le_bytes(id) == <<id.index % 256, id.index \div 256, id.sub_index>>

EntryId_from_bytes(b) == EntryId_new(b[1] + b[2] * 256, b[3])

----------------------------------------------------------------------------
(* ClientCommand and ServerCommand: src/src/sdo.rs 107-222 *)

Err == [kind |-> "Err"]

ExpeditedDownload(length) == [kind |-> "ExpeditedDownload", length |-> length]

InitiateSegmentedDownload == [kind |-> "InitiateSegmentedDownload"]

DownloadSegmentRequest(toggle, length, last_seg) ==
    [kind |-> "DownloadSegmentRequest", toggle |-> toggle, length |-> length,
     last_seg |-> last_seg]

InitiateUpload == [kind |-> "InitiateUpload"]

UploadSegmentRequest(toggle) == [kind |-> "UploadSegmentRequest", toggle |-> toggle]

ClientAbort == [kind |-> "ClientAbort"]

InitiateDownloadResponse == [kind |-> "InitiateDownloadResponse"]

DownloadSegmentResponse(toggle) == [kind |-> "DownloadSegmentResponse", toggle |-> toggle]

UploadInitiateExpeditedResponse(length) ==
    [kind |-> "UploadInitiateExpeditedResponse", length |-> length]

UploadInitiateSegmentedResponse == [kind |-> "UploadInitiateSegmentedResponse"]

UploadSegmentResponse(toggle, length, last) ==
    [kind |-> "UploadSegmentResponse", toggle |-> toggle, length |-> length, last |-> last]

ServerAbort == [kind |-> "ServerAbort"]

\* Into<u8> for ClientCommand storing the lengths themselves, not their complements
ClientCommand_into_plain_length(c) ==
    CASE c.kind = "ExpeditedDownload" ->
           Shl(1, 5) + Shl(c.length % 4, 2) + Shl(1, 1) + 1
      [] c.kind = "InitiateSegmentedDownload" ->
           Shl(1, 5) + Shl(0, 2) + Shl(0, 1) + 1
      [] c.kind = "DownloadSegmentRequest" ->
           Shl(0, 5) + Shl(AsU8(c.toggle), 4) + Shl(c.length, 1) + AsU8(c.last_seg)
      [] c.kind = "InitiateUpload" -> Shl(2, 5)
      [] c.kind = "UploadSegmentRequest" -> Shl(3, 5) + Shl(AsU8(c.toggle), 4)
      [] c.kind = "ClientAbort" -> Shl(4, 5)

\* impl Into<u8> for ClientCommand
ClientCommand_into(c) ==
    CASE c.kind = "ExpeditedDownload" ->
           Shl(1, 5) + Shl(4 - c.length, 2) + Shl(1, 1) + 1
      [] c.kind = "InitiateSegmentedDownload" ->
           Shl(1, 5) + Shl(0, 2) + Shl(0, 1) + 1
      [] c.kind = "DownloadSegmentRequest" ->
           Shl(0, 5) + Shl(AsU8(c.toggle), 4) + Shl(7 - c.length, 1) + AsU8(c.last_seg)
      [] c.kind = "InitiateUpload" -> Shl(2, 5)
      [] c.kind = "UploadSegmentRequest" -> Shl(3, 5) + Shl(AsU8(c.toggle), 4)
      [] c.kind = "ClientAbort" -> Shl(4, 5)

\* TryFrom<u8> for ClientCommand matching on two family bits only
ClientCommand_try_from_two_bits(value) ==
    LET family == AndLow(Shr(value, 5), 3)
    IN CASE family = 0 ->
              DownloadSegmentRequest(AndLow(Shr(value, 4), 1) = 1,
                                     7 - AndLow(Shr(value, 1), 7),
                                     AndLow(value, 1) = 1)
         [] family = 1 /\ AndLow(Shr(value, 1), 1) = 1 ->
              ExpeditedDownload(4 - AndLow(Shr(value, 2), 3))
         [] family = 1 /\ AndLow(Shr(value, 1), 1) # 1 -> InitiateSegmentedDownload
         [] family = 2 -> InitiateUpload
         [] family = 3 -> UploadSegmentRequest(AndLow(Shr(value, 4), 1) = 1)
         [] OTHER -> Err

\* impl TryFrom<u8> for ClientCommand
ClientCommand_try_from(value) ==
    LET family == Shr(value, 5)
    IN CASE family = 0 ->
              DownloadSegmentRequest(AndLow(Shr(value, 4), 1) = 1,
                                     7 - AndLow(Shr(value, 1), 7),
                                     AndLow(value, 1) = 1)
         [] family = 1 /\ AndLow(Shr(value, 1), 1) = 1 ->
              ExpeditedDownload(4 - AndLow(Shr(value, 2), 3))
         [] family = 1 /\ AndLow(Shr(value, 1), 1) # 1 -> InitiateSegmentedDownload
         [] family = 2 -> InitiateUpload
         [] family = 3 -> UploadSegmentRequest(AndLow(Shr(value, 4), 1) = 1)
         [] family = 4 -> ClientAbort
         [] OTHER -> Err

\* Into<u8> for ServerCommand with the families of the two download responses exchanged
ServerCommand_into_swapped(c) ==
    CASE c.kind = "InitiateDownloadResponse" -> Shl(1, 5)
      [] c.kind = "DownloadSegmentResponse" -> BitOr(Shl(3, 5), Shl(AsU8(c.toggle), 4))
      [] c.kind = "UploadInitiateExpeditedResponse" ->
           BitOr(BitOr(BitOr(Shl(2, 5), Shl(4 - c.length, 2)), Shl(1, 1)), 1)
      [] c.kind = "UploadInitiateSegmentedResponse" -> BitOr(Shl(2, 5), 1)
      [] c.kind = "UploadSegmentResponse" ->
           BitOr(BitOr(BitOr(Shl(0, 5), Shl(AsU8(c.toggle), 4)), Shl(7 - c.length, 1)),
                 AsU8(c.last))
      [] c.kind = "ServerAbort" -> Shl(4, 5)

\* impl Into<u8> for ServerCommand
ServerCommand_into(c) ==
    CASE c.kind = "InitiateDownloadResponse" -> Shl(3, 5)
      [] c.kind = "DownloadSegmentResponse" -> BitOr(Shl(1, 5), Shl(AsU8(c.toggle), 4))
      [] c.kind = "UploadInitiateExpeditedResponse" ->
           BitOr(BitOr(BitOr(Shl(2, 5), Shl(4 - c.length, 2)), Shl(1, 1)), 1)
      [] c.kind = "UploadInitiateSegmentedResponse" -> BitOr(Shl(2, 5), 1)
      [] c.kind = "UploadSegmentResponse" ->
           BitOr(BitOr(BitOr(Shl(0, 5), Shl(AsU8(c.toggle), 4)), Shl(7 - c.length, 1)),
                 AsU8(c.last))
      [] c.kind = "ServerAbort" -> Shl(4, 5)

\* TryFrom<u8> for ServerCommand with the arms of families 1 and 3 exchanged
ServerCommand_try_from_swapped(value) ==
    LET family == AndLow(Shr(value, 5), 7)
    IN CASE family = 0 ->
              UploadSegmentResponse(AndLow(Shr(value, 4), 1) = 1,
                                    7 - AndLow(Shr(value, 1), 7),
                                    AndLow(value, 1) = 1)
         [] family = 3 -> DownloadSegmentResponse(AndLow(Shr(value, 4), 1) = 1)
         [] family = 2 /\ AndLow(Shr(value, 1), 1) = 1 ->
              UploadInitiateExpeditedResponse(4 - AndLow(Shr(value, 2), 3))
         [] family = 2 /\ AndLow(Shr(value, 1), 1) # 1 -> UploadInitiateSegmentedResponse
         [] family = 1 -> InitiateDownloadResponse
         [] family = 4 -> ServerAbort
         [] OTHER -> Err

\* impl TryFrom<u8> for ServerCommand
ServerCommand_try_from(value) ==
    LET family == AndLow(Shr(value, 5), 7)
    IN CASE family = 0 ->
              UploadSegmentResponse(AndLow(Shr(value, 4), 1) = 1,
                                    7 - AndLow(Shr(value, 1), 7),
                                    AndLow(value, 1) = 1)
         [] family = 1 -> DownloadSegmentResponse(AndLow(Shr(value, 4), 1) = 1)
         [] family = 2 /\ AndLow(Shr(value, 1), 1) = 1 ->
              UploadInitiateExpeditedResponse(4 - AndLow(Shr(value, 2), 3))
         [] family = 2 /\ AndLow(Shr(value, 1), 1) # 1 -> UploadInitiateSegmentedResponse
         [] family = 3 -> InitiateDownloadResponse
         [] family = 4 -> ServerAbort
         [] OTHER -> Err

\* the command a serialized command byte belongs to: one Into<u8> per command type
Command_into(c) ==
    IF c.kind \in {"ExpeditedDownload", "InitiateSegmentedDownload",
                   "DownloadSegmentRequest", "InitiateUpload", "UploadSegmentRequest",
                   "ClientAbort"}
    THEN ClientCommand_into(c)
    ELSE ServerCommand_into(c)

----------------------------------------------------------------------------
(* Frames: src/src/frame.rs (EncodedCANOpenFrame), src/src/test_types.rs    *)
(* (TestFrame), embedded_can::Id.                                           *)

\* embedded_can::Id::Standard / Id::Extended
Standard(raw) == [ext |-> FALSE, raw |-> raw]

Extended(raw) == [ext |-> TRUE, raw |-> raw]

\* from_vec_data with is_remote_frame() reporting true
from_vec_data_remote(id, data) ==
    [kind |-> "Frame", id |-> id, data |-> data, dlc |-> Len(data), remote |-> TRUE]

\* EncodedCANOpenFrame::from_vec_data: dlc() is data.len(), is_remote_frame() is false
from_vec_data(id, data) ==
    [kind |-> "Frame", id |-> id, data |-> data, dlc |-> Len(data), remote |-> FALSE]

\* TestFrame / EncodedCANOpenFrame via Frame::new
Frame_new(id, data) ==
    [kind |-> "Frame", id |-> id, data |-> data, dlc |-> Len(data), remote |-> FALSE]

\* TestFrame via Frame::new_remote: no data, the dlc as given
Frame_new_remote(id, dlc) ==
    [kind |-> "Frame", id |-> id, data |-> <<>>, dlc |-> dlc, remote |-> TRUE]

----------------------------------------------------------------------------
(* SdoFrame: src/src/sdo.rs 59-103 *)

UploadRequest(id) == [kind |-> "UploadRequest", id |-> id]

ExpeditedDownloadRequest(id, payload) ==
    [kind |-> "ExpeditedDownloadRequest", id |-> id, payload |-> payload]

DownloadInitiateResponse(id) == [kind |-> "DownloadInitiateResponse", id |-> id]

ExpeditedUploadResponse(id, payload) ==
    [kind |-> "ExpeditedUploadResponse", id |-> id, payload |-> payload]

SegmentedUploadInitiateResponse(id, size) ==
    [kind |-> "SegmentedUploadInitiateResponse", id |-> id, size |-> size]

SegmentedUploadRequest(toggle) == [kind |-> "SegmentedUploadRequest", toggle |-> toggle]

SegmentedUploadResponse(toggle, last, payload) ==
    [kind |-> "SegmentedUploadResponse", toggle |-> toggle, last |-> last,
     payload |-> payload]

SegmentedDownloadInitiateRequest(id, size) ==
    [kind |-> "SegmentedDownloadInitiateRequest", id |-> id, size |-> size]

SegmentedDownloadRequest(toggle, last, payload) ==
    [kind |-> "SegmentedDownloadRequest", toggle |-> toggle, last |-> last,
     payload |-> payload]

SegmentedDownloadResponse(toggle) ==
    [kind |-> "SegmentedDownloadResponse", toggle |-> toggle]

Abort(id, code) == [kind |-> "Abort", id |-> id, code |-> code]

\* Vec::from_slice keeping a leading zero byte out of the vector
Vec_from_slice_skip_zero(n, s) ==
    IF Len(s) > n THEN Fault
    ELSE IF Len(s) > 0 /\ s[1] = 0 THEN Some(Tail(s))
    ELSE Some(s)

\* heapless::Vec::<u8, N>::from_slice(..).unwrap(): panics when the slice exceeds N
Vec_from_slice(n, s) == IF Len(s) > n THEN Fault ELSE Some(s)

----------------------------------------------------------------------------
(* SDOCoder: src/src/sdo.rs 229-460 *)

RX_ID_OFFSET == \H600

TX_ID_OFFSET == \H580

FRAME_CAPACITY == 8

\* build_tx_sdo_frame without the padding loop
build_tx_sdo_frame_unpadded(id, command, entry_id, data) ==
    LET head == <<Command_into(command)>>
        with_id == IF entry_id = None THEN head ELSE head \o EntryId_to_le_bytes(entry_id)
        with_data == IF data = None THEN with_id ELSE with_id \o data.val
    IN IF Len(with_data) > FRAME_CAPACITY THEN Fault ELSE from_vec_data(id, with_data)

\* build_tx_sdo_frame with the zeros pushed before the data bytes
build_tx_sdo_frame_left_padded(id, command, entry_id, data) ==
    LET head == <<Command_into(command)>>
        with_id == IF entry_id = None THEN head ELSE head \o EntryId_to_le_bytes(entry_id)
        bytes == IF data = None THEN <<>> ELSE data.val
    IN IF Len(with_id) + Len(bytes) > FRAME_CAPACITY
       THEN Fault
       ELSE from_vec_data(id, with_id \o Zeros(FRAME_CAPACITY - Len(with_id) - Len(bytes))
                                  \o bytes)

\* build_tx_sdo_frame: command byte, EntryId bytes, data bytes, zero padding to 8.
\* entry_id is None or an EntryId; data is None or Some(bytes). Each push is
\* unwrapped, so a ninth byte panics.
build_tx_sdo_frame(id, command, entry_id, data) ==
    LET head == <<Command_into(command)>>
        with_id == IF entry_id = None THEN head ELSE head \o EntryId_to_le_bytes(entry_id)
        with_data == IF data = None THEN with_id ELSE with_id \o data.val
    IN IF Len(with_data) > FRAME_CAPACITY
       THEN Fault
       ELSE from_vec_data(id, with_data \o Zeros(FRAME_CAPACITY - Len(with_data)))

encode_tx_frame(tx_id, f) ==
    CASE f.kind = "UploadRequest" ->
           build_tx_sdo_frame(tx_id, InitiateUpload, f.id, None)
      [] f.kind = "ExpeditedDownloadRequest" ->
           build_tx_sdo_frame(tx_id, ExpeditedDownload(Len(f.payload)), f.id,
                              Some(f.payload))
      [] f.kind = "DownloadInitiateResponse" ->
           build_tx_sdo_frame(tx_id, InitiateDownloadResponse, f.id, None)
      [] f.kind = "ExpeditedUploadResponse" ->
           build_tx_sdo_frame(tx_id, UploadInitiateExpeditedResponse(Len(f.payload)), f.id,
                              Some(f.payload))
      [] f.kind = "SegmentedUploadInitiateResponse" ->
           build_tx_sdo_frame(tx_id, UploadInitiateSegmentedResponse, f.id,
                              Some(u32_to_le_bytes(f.size)))
      [] f.kind = "SegmentedUploadRequest" ->
           build_tx_sdo_frame(tx_id, UploadSegmentRequest(f.toggle), None, None)
      [] f.kind = "SegmentedUploadResponse" ->
           build_tx_sdo_frame(tx_id,
                              UploadSegmentResponse(f.toggle, Len(f.payload), f.last),
                              None, Some(f.payload))
      [] f.kind = "SegmentedDownloadInitiateRequest" ->
           build_tx_sdo_frame(tx_id, InitiateSegmentedDownload, f.id,
                              Some(u32_to_le_bytes(f.size)))
      [] f.kind = "SegmentedDownloadRequest" ->
           build_tx_sdo_frame(tx_id,
                              DownloadSegmentRequest(f.toggle, Len(f.payload), f.last),
                              None, Some(f.payload))
      [] f.kind = "SegmentedDownloadResponse" ->
           build_tx_sdo_frame(tx_id, DownloadSegmentResponse(f.toggle), None, None)
      [] f.kind = "Abort" ->
           build_tx_sdo_frame(tx_id, ServerAbort, f.id, Some(to_le_bytes(f.code)))

\* the EntryId read from frame_data[0..3]
EntryIdAt_from_zero(frame_data) ==
    IF SliceOk(frame_data, 0, 3) THEN EntryId_from_bytes(Slice(frame_data, 0, 3)) ELSE Fault

\* EntryId::from_bytes(frame_data[1..4].try_into().unwrap())
EntryIdAt(frame_data) ==
    IF SliceOk(frame_data, 1, 4) THEN EntryId_from_bytes(Slice(frame_data, 1, 4)) ELSE Fault

\* PayloadAt with the slice running one byte past its end
PayloadAt_one_past(n, frame_data, a, b) ==
    IF SliceOk(frame_data, a, b + 1) THEN Vec_from_slice(n, Slice(frame_data, a, b + 1))
    ELSE Fault

\* Vec::<u8, N>::from_slice(&frame_data[a..b]).unwrap()
PayloadAt(n, frame_data, a, b) ==
    IF SliceOk(frame_data, a, b) THEN Vec_from_slice(n, Slice(frame_data, a, b)) ELSE Fault

\* u32::from_le_bytes(frame_data[4..8].try_into().unwrap())
SizeAt(frame_data) ==
    IF SliceOk(frame_data, 4, 8) THEN Some(u32_from_le_bytes(Slice(frame_data, 4, 8)))
    ELSE Fault

\* SdoAbortCode::from_le_bytes(&frame_data[4..8])
AbortCodeAt(frame_data) ==
    IF SliceOk(frame_data, 4, 8) THEN from_le_bytes(Slice(frame_data, 4, 8)) ELSE Fault

\* the Abort arm falling back to GeneralError for an unrecognised code
DecodeAbort_general_error(frame_data) ==
    LET code == AbortCodeAt(frame_data)
    IN IF code = Fault THEN Fault
       ELSE IF EntryIdAt(frame_data) = Fault THEN Fault
       ELSE IF code = None THEN Abort(EntryIdAt(frame_data), "GeneralError")
       ELSE Abort(EntryIdAt(frame_data), code.val)

\* the Abort arm shared by both decoders
DecodeAbort(frame_data) ==
    LET code == AbortCodeAt(frame_data)
    IN IF code = Fault THEN Fault
       ELSE IF code = None THEN None
       ELSE IF EntryIdAt(frame_data) = Fault THEN Fault
       ELSE Abort(EntryIdAt(frame_data), code.val)

\* DecodeWithPayload taking all of frame_data[a..8], whatever the declared length
DecodeWithPayload_to_end(kind, n, frame_data, a, b) ==
    LET id == EntryIdAt(frame_data)
        payload == PayloadAt(n, frame_data, a, 8)
    IN IF id = Fault \/ payload = Fault THEN Fault
       ELSE [kind |-> kind, id |-> id, payload |-> payload.val]

\* a message with an EntryId and a payload of at most n bytes taken from frame_data[a..b]
DecodeWithPayload(kind, n, frame_data, a, b) ==
    LET id == EntryIdAt(frame_data)
        payload == PayloadAt(n, frame_data, a, b)
    IN IF id = Fault \/ payload = Fault THEN Fault
       ELSE [kind |-> kind, id |-> id, payload |-> payload.val]

\* a message with an EntryId and a 32-bit size
DecodeWithSize(kind, frame_data) ==
    LET id == EntryIdAt(frame_data)
        size == SizeAt(frame_data)
    IN IF id = Fault \/ size = Fault THEN Fault
       ELSE [kind |-> kind, id |-> id, size |-> size.val]

\* a message with an EntryId only
DecodeWithId(kind, frame_data) ==
    LET id == EntryIdAt(frame_data)
    IN IF id = Fault THEN Fault ELSE [kind |-> kind, id |-> id]

\* DecodeSegment with the payload slice starting at the command byte
DecodeSegment_from_zero(kind, toggle, last, length, frame_data) ==
    LET payload == PayloadAt(7, frame_data, 0, length)
    IN IF payload = Fault THEN Fault
       ELSE [kind |-> kind, toggle |-> toggle, last |-> last, payload |-> payload.val]

\* a segment message: toggle, last and up to 7 bytes from frame_data[1..1+length]
DecodeSegment(kind, toggle, last, length, frame_data) ==
    LET payload == PayloadAt(7, frame_data, 1, 1 + length)
    IN IF payload = Fault THEN Fault
       ELSE [kind |-> kind, toggle |-> toggle, last |-> last, payload |-> payload.val]

try_decode_rx_frame_from_client(frame_data) ==
    IF Len(frame_data) < 1 THEN Fault
    ELSE LET c == ClientCommand_try_from(frame_data[1])
         IN CASE c.kind = "Err" -> None
              [] c.kind = "ExpeditedDownload" ->
                   DecodeWithPayload("ExpeditedDownloadRequest", 4, frame_data,
                                     4, 4 + c.length)
              [] c.kind = "InitiateSegmentedDownload" ->
                   DecodeWithSize("SegmentedDownloadInitiateRequest", frame_data)
              [] c.kind = "DownloadSegmentRequest" ->
                   DecodeSegment("SegmentedDownloadRequest", c.toggle, c.last_seg,
                                 c.length, frame_data)
              [] c.kind = "InitiateUpload" -> DecodeWithId("UploadRequest", frame_data)
              [] c.kind = "UploadSegmentRequest" -> SegmentedUploadRequest(c.toggle)
              [] c.kind = "ClientAbort" -> DecodeAbort(frame_data)

try_decode_rx_frame_from_server(frame_data) ==
    IF Len(frame_data) < 1 THEN Fault
    ELSE LET c == ServerCommand_try_from(frame_data[1])
         IN CASE c.kind = "Err" -> None
              [] c.kind = "ServerAbort" -> DecodeAbort(frame_data)
              [] c.kind = "DownloadSegmentResponse" -> SegmentedDownloadResponse(c.toggle)
              [] c.kind = "InitiateDownloadResponse" ->
                   DecodeWithId("DownloadInitiateResponse", frame_data)
              [] c.kind = "UploadInitiateExpeditedResponse" ->
                   DecodeWithPayload("ExpeditedUploadResponse", 4, frame_data,
                                     4, 4 + c.length)
              [] c.kind = "UploadInitiateSegmentedResponse" ->
                   DecodeWithSize("SegmentedUploadInitiateResponse", frame_data)
              [] c.kind = "UploadSegmentResponse" ->
                   DecodeSegment("SegmentedUploadResponse", c.toggle, c.last, c.length,
                                 frame_data)

\* try_decode_rx_frame without the rejection of extended identifiers
try_decode_rx_frame_any_id_kind(node, role, f) ==
    IF f.id.raw # node + RX_ID_OFFSET THEN None
    ELSE IF f.dlc # 8 THEN None
    ELSE IF role = "Server" THEN try_decode_rx_frame_from_client(f.data)
    ELSE try_decode_rx_frame_from_server(f.data)

\* try_decode_rx_frame handing each role the other role's decoder
try_decode_rx_frame_roles_swapped(node, role, f) ==
    IF f.id.ext THEN None
    ELSE IF f.id.raw # node + RX_ID_OFFSET THEN None
    ELSE IF f.dlc # 8 THEN None
    ELSE IF role = "Server" THEN try_decode_rx_frame_from_server(f.data)
    ELSE try_decode_rx_frame_from_client(f.data)

try_decode_rx_frame(node, role, f) ==
    IF f.id.ext THEN None
    ELSE IF f.id.raw # node + RX_ID_OFFSET THEN None
    ELSE IF f.dlc # 8 THEN None
    ELSE IF role = "Server" THEN try_decode_rx_frame_from_client(f.data)
    ELSE try_decode_rx_frame_from_server(f.data)

----------------------------------------------------------------------------
(* Bounds and the inputs drawn within them *)

NumNodes == 2

NumEntryIds == 2

NumSizes == 2

MaxAbortLen == 5

NodeSamples == <<5, 6, 127, 0>>

\* NodeId values (0..127) the decoder is asked to decode for
Nodes == {NodeSamples[i] : i \in 1..NumNodes}

EntryIdSamples ==
    <<EntryId_new(\H2000, \H01), EntryId_new(\H12FF, \HFE), EntryId_new(0, 0),
      EntryId_new(\HFFFF, \H20)>>

EntryIds == {EntryIdSamples[i] : i \in 1..NumEntryIds}

SizeSamples == <<U32(\H1234, \H5678), U32(\HABCD, \HEF12), U32(0, 0), U32(\HFFFF, \HFFFF)>>

Sizes == {SizeSamples[i] : i \in 1..NumSizes}

\* byte values payloads are made of
PayloadBytes == {\H00, \H99}

SeqsUpTo(S, n) == UNION {[1..k -> S] : k \in 0..n}

\* Vec<u8, 4> and Vec<u8, 7> values
Payloads4 == SeqsUpTo(PayloadBytes, 4)

Payloads7 == SeqsUpTo(PayloadBytes, 7)

\* every SdoFrame value within the bounds
SdoFrames ==
    {UploadRequest(id) : id \in EntryIds}
    \cup {ExpeditedDownloadRequest(id, p) : id \in EntryIds, p \in Payloads4}
    \cup {DownloadInitiateResponse(id) : id \in EntryIds}
    \cup {ExpeditedUploadResponse(id, p) : id \in EntryIds, p \in Payloads4}
    \cup {SegmentedUploadInitiateResponse(id, sz) : id \in EntryIds, sz \in Sizes}
    \cup {SegmentedUploadRequest(t) : t \in BOOLEAN}
    \cup {SegmentedUploadResponse(t, l, p) : t \in BOOLEAN, l \in BOOLEAN, p \in Payloads7}
    \cup {SegmentedDownloadInitiateRequest(id, sz) : id \in EntryIds, sz \in Sizes}
    \cup {SegmentedDownloadRequest(t, l, p) : t \in BOOLEAN, l \in BOOLEAN, p \in Payloads7}
    \cup {SegmentedDownloadResponse(t) : t \in BOOLEAN}
    \cup {Abort(id, c) : id \in EntryIds, c \in SdoAbortCode}

\* identifiers seen on the bus: each node's SDO receive and transmit identifier, and an
\* extended identifier with the raw value of a receive identifier
WireIds ==
    {Standard(n + RX_ID_OFFSET) : n \in Nodes}
    \cup {Standard(n + TX_ID_OFFSET) : n \in Nodes}
    \cup {Extended(NodeSamples[1] + RX_ID_OFFSET)}

\* bytes 4..7 of delivered frames: a member's code, near misses of it, other patterns
WordSamples ==
    {<<\H05, \H00, \H04, \H05>>, <<\H05, \H00, \H04, \H85>>, <<\H00, \H00, \H00, \H00>>,
     <<\H55, \H99, \H88, \H77>>}

\* data of delivered 8-byte frames: every command byte over sampled bodies, and abort
\* commands over every member's code
RxData ==
    {<<c>> \o EntryId_to_le_bytes(id) \o w : c \in 0..255, id \in EntryIds, w \in WordSamples}
    \cup {<<c>> \o EntryId_to_le_bytes(id) \o to_le_bytes(code) :
              c \in {\H80, \H9F}, id \in EntryIds, code \in SdoAbortCode}

\* data of delivered frames shorter than 8 bytes
ShortData ==
    {SubSeq(<<c, \H00, \H20, \H01, \H55, \H99, \H88, \H77>>, 1, k) :
         c \in {\H00, \H23, \H21, \H40, \H43, \H60, \H80, \HE0}, k \in 0..7}

\* byte sequences handed to SdoAbortCode::from_le_bytes
AbortByteSeqs == SeqsUpTo({\H00, \H04, \H05, \H06}, MaxAbortLen)

\* ClientCommand values whose length fits the payload they stand for
ClientCommands ==
    {ExpeditedDownload(n) : n \in 0..4}
    \cup {InitiateSegmentedDownload, InitiateUpload, ClientAbort}
    \cup {DownloadSegmentRequest(t, n, l) : t \in BOOLEAN, n \in 0..7, l \in BOOLEAN}
    \cup {UploadSegmentRequest(t) : t \in BOOLEAN}

ServerCommands ==
    {UploadInitiateExpeditedResponse(n) : n \in 0..4}
    \cup {InitiateDownloadResponse, UploadInitiateSegmentedResponse, ServerAbort}
    \cup {UploadSegmentResponse(t, n, l) : t \in BOOLEAN, n \in 0..7, l \in BOOLEAN}
    \cup {DownloadSegmentResponse(t) : t \in BOOLEAN}

----------------------------------------------------------------------------
(* The state machine: one step per call of the codec *)

Init ==
    /\ pc = "idle"
    /\ target_id = None
    /\ sdo_frame = None
    /\ frame = None
    /\ self_node_id = NodeSamples[1]
    /\ node_role = "Server"
    /\ decoded = None
    /\ cmd_in = None
    /\ cmd_byte = 0
    /\ cmd_out = None
    /\ abort_in = None
    /\ abort_bytes = <<>>
    /\ abort_out = None
    /\ input_entries = None
    /\ entries = <<>>
    /\ lookup_id = None
    /\ found = None
    /\ copied = None
    /\ writes = 0
    /\ cob_args = None
    /\ guts = None
    /\ cob_read = None
    /\ node_arg = None
    /\ node_made = None
    /\ node_raw = None
    /\ response = None
    /\ response_frame = None
    /\ response_decoded = None

\* the frame changes: forget the previous decode
ResetDecode ==
    /\ self_node_id' = NodeSamples[1]
    /\ node_role' = "Server"
    /\ decoded' = None

\* SDOCoder::encode_tx_frame(tx_id, v)
EncodeTx ==
    /\ pc = "idle"
    /\ \E id \in WireIds, v \in SdoFrames :
        /\ pc' = "encoded"
        /\ target_id' = id
        /\ sdo_frame' = v
        /\ frame' = encode_tx_frame(id, v)
        /\ ResetDecode
        /\ UNCHANGED <<extVars, cmdVars, abortVars>>

\* the transport delivers an 8-byte data frame
ReceiveData ==
    /\ pc = "idle"
    /\ \E id \in WireIds, d \in RxData :
        /\ pc' = "received"
        /\ target_id' = None
        /\ sdo_frame' = None
        /\ frame' = Frame_new(id, d)
        /\ ResetDecode
        /\ UNCHANGED <<extVars, cmdVars, abortVars>>

\* the transport delivers a data frame of fewer than 8 bytes
ReceiveShort ==
    /\ pc = "idle"
    /\ \E n \in Nodes, d \in ShortData :
        /\ pc' = "received"
        /\ target_id' = None
        /\ sdo_frame' = None
        /\ frame' = Frame_new(Standard(n + RX_ID_OFFSET), d)
        /\ ResetDecode
        /\ UNCHANGED <<extVars, cmdVars, abortVars>>

\* the transport delivers a remote frame: a dlc, no data
ReceiveRemote ==
    /\ pc = "idle"
    /\ \E id \in WireIds, dlc \in 0..8 :
        /\ pc' = "received"
        /\ target_id' = None
        /\ sdo_frame' = None
        /\ frame' = Frame_new_remote(id, dlc)
        /\ ResetDecode
        /\ UNCHANGED <<extVars, cmdVars, abortVars>>

\* SDOCoder::try_decode_rx_frame(n, role, &frame)
DecodeRx ==
    /\ pc \in {"encoded", "received"}
    /\ frame.kind = "Frame"
    /\ \E n \in Nodes, role \in {"Server", "Client"} :
        /\ pc' = "decoded"
        /\ self_node_id' = n
        /\ node_role' = role
        /\ decoded' = try_decode_rx_frame(n, role, frame)
        /\ UNCHANGED <<extVars, target_id, sdo_frame, frame, cmdVars, abortVars>>

\* the caller drops the values of a finished call sequence; the codec keeps no state
Release ==
    /\ pc = "decoded"
    /\ pc' = "idle"
    /\ target_id' = None
    /\ sdo_frame' = None
    /\ frame' = None
    /\ ResetDecode
    /\ UNCHANGED <<extVars, cmdVars, abortVars>>

Next == EncodeTx \/ ReceiveData \/ ReceiveShort \/ ReceiveRemote \/ DecodeRx \/ Release

Spec == Init /\ [][Next]_vars

----------------------------------------------------------------------------
(* The command byte on its own: Into<u8> and TryFrom<u8> of both command types *)

\* ClientCommand::into(c)
ClientInto ==
    /\ pc = "idle"
    /\ \E c \in ClientCommands :
        /\ pc' = "cmd_byte"
        /\ cmd_in' = c
        /\ cmd_byte' = ClientCommand_into(c)
        /\ cmd_out' = None
        /\ UNCHANGED <<extVars, codecVars, abortVars>>

\* ServerCommand::into(c)
ServerInto ==
    /\ pc = "idle"
    /\ \E c \in ServerCommands :
        /\ pc' = "cmd_byte"
        /\ cmd_in' = c
        /\ cmd_byte' = ServerCommand_into(c)
        /\ cmd_out' = None
        /\ UNCHANGED <<extVars, codecVars, abortVars>>

\* a command byte arrives in byte 0 of a frame
ReceiveByte ==
    /\ pc = "idle"
    /\ \E b \in 0..255 :
        /\ pc' = "cmd_byte"
        /\ cmd_in' = None
        /\ cmd_byte' = b
        /\ cmd_out' = None
        /\ UNCHANGED <<extVars, codecVars, abortVars>>

\* ClientCommand::try_from(cmd_byte)
ClientTryFrom ==
    /\ pc = "cmd_byte"
    /\ pc' = "client_parsed"
    /\ cmd_out' = ClientCommand_try_from(cmd_byte)
    /\ UNCHANGED <<extVars, cmd_in, cmd_byte, codecVars, abortVars>>

\* ServerCommand::try_from(cmd_byte)
ServerTryFrom ==
    /\ pc = "cmd_byte"
    /\ pc' = "server_parsed"
    /\ cmd_out' = ServerCommand_try_from(cmd_byte)
    /\ UNCHANGED <<extVars, cmd_in, cmd_byte, codecVars, abortVars>>

NextCmd == ClientInto \/ ServerInto \/ ReceiveByte \/ ClientTryFrom \/ ServerTryFrom

SpecCmd == Init /\ [][NextCmd]_vars

----------------------------------------------------------------------------
(* SdoAbortCode on its own: to_le_bytes and from_le_bytes *)

\* code.to_le_bytes()
ToLeBytes ==
    /\ pc = "idle"
    /\ \E c \in SdoAbortCode :
        /\ pc' = "abort_bytes"
        /\ abort_in' = Some(c)
        /\ abort_bytes' = to_le_bytes(c)
        /\ abort_out' = None
        /\ UNCHANGED <<extVars, codecVars, cmdVars>>

\* a byte slice of any length is about to be decoded
ReceiveBytes ==
    /\ pc = "idle"
    /\ \E bytes \in AbortByteSeqs :
        /\ pc' = "abort_bytes"
        /\ abort_in' = None
        /\ abort_bytes' = bytes
        /\ abort_out' = None
        /\ UNCHANGED <<extVars, codecVars, cmdVars>>

\* SdoAbortCode::from_le_bytes(&abort_bytes)
FromLeBytes ==
    /\ pc = "abort_bytes"
    /\ pc' = "abort_parsed"
    /\ abort_out' = from_le_bytes(abort_bytes)
    /\ UNCHANGED <<extVars, abort_in, abort_bytes, codecVars, cmdVars>>

NextAbort == ToLeBytes \/ ReceiveBytes \/ FromLeBytes

SpecAbort == Init /\ [][NextAbort]_vars

----------------------------------------------------------------------------
(* object_dictionary.rs: EntryId's order, ObjectDictionary::new, get_mut_variable *)

\* an order on EntryId that compares sub_index before index
EntryId_cmp_sub_index_first(a, b) ==
    IF a.sub_index < b.sub_index THEN "Less"
    ELSE IF a.sub_index > b.sub_index THEN "Greater"
    ELSE IF a.index < b.index THEN "Less"
    ELSE IF a.index > b.index THEN "Greater"
    ELSE "Equal"

\* #[derive(PartialOrd, Ord)] on EntryId: the fields in declaration order, index first
EntryId_cmp(a, b) ==
    IF a.index < b.index THEN "Less"
    ELSE IF a.index > b.index THEN "Greater"
    ELSE IF a.sub_index < b.sub_index THEN "Less"
    ELSE IF a.sub_index > b.sub_index THEN "Greater"
    ELSE "Equal"

\* struct Variable: its id, and a name and a data_type that tell two entries apart
\* (the other fields are carried along in the same way)
Variable(name, data_type, id) == [name |-> name, data_type |-> data_type, id |-> id]

\* one step of a stable sort: v goes behind every element whose key is not greater
RECURSIVE InsertByKey(_, _)
InsertByKey(sorted, v) ==
    IF sorted = <<>> THEN <<v>>
    ELSE IF EntryId_cmp(v.id, Head(sorted).id) = "Less" THEN <<v>> \o sorted
    ELSE <<Head(sorted)>> \o InsertByKey(Tail(sorted), v)

\* e.sort_by_key(|v| v.id): a stable sort, so its result is the one a stable
\* insertion sort gives
RECURSIVE sort_by_key(_)
sort_by_key(e) ==
    IF e = <<>> THEN <<>>
    ELSE InsertByKey(sort_by_key(SubSeq(e, 1, Len(e) - 1)), e[Len(e)])

\* the loop of slice::binary_search_by: halve the range, keep the half that can
\* still hold the key (positions count from 0)
RECURSIVE binary_search_loop(_, _, _, _)
binary_search_loop(e, id, base, size) ==
    IF size > 1
    THEN LET half == size \div 2
             mid == base + half
         IN binary_search_loop(e, id,
                IF EntryId_cmp(e[mid + 1].id, id) = "Greater" THEN base ELSE mid,
                size - half)
    ELSE base

\* entries.binary_search_by_key(&id, |v| v.id): Ok(position) or Err
binary_search_by_key(e, id) ==
    IF Len(e) = 0 THEN Err
    ELSE LET base == binary_search_loop(e, id, 0, Len(e))
         IN IF EntryId_cmp(e[base + 1].id, id) = "Equal"
            THEN [kind |-> "Ok", idx |-> base]
            ELSE Err

\* ObjectDictionary::new: the entries sorted by id (the registers and the PDO
\* mappings are stored as given)
ObjectDictionary_new(e) == sort_by_key(e)

\* ObjectDictionary::get_mut_variable: a handle to the entry found (its position), or None
get_mut_variable(e, id) ==
    LET r == binary_search_by_key(e, id)
    IN IF r.kind = "Ok" THEN Some(r.idx) ELSE None

\* ENTRY_COUNT, the capacity of the entries vector
ENTRY_COUNT == 3

\* how many writes through handles one dictionary sees
MaxWrites == 2

DictIds ==
    {EntryId_new(\H1000, 2), EntryId_new(\H2000, 1), EntryId_new(\H2000, 3)}

\* the ids looked up: those that entries can have, and one that no entry has
LookupIds == DictIds \cup {EntryId_new(\H1018, 1)}

NameSamples == <<"a", "b", "c", "d", "e">>

DataValues == {0, 1}

\* the lists given to ObjectDictionary::new: any ids in any order, repeats included,
\* each Variable named after its place in the list
DictInputs ==
    UNION {{[i \in 1..n |-> Variable(NameSamples[i], 0, ids[i])] : ids \in [1..n -> DictIds]}
           : n \in 0..ENTRY_COUNT}

ResetLookup ==
    /\ lookup_id' = None
    /\ found' = None

\* ObjectDictionary::new(.., entries)
Construct ==
    /\ pc = "idle"
    /\ \E e \in DictInputs :
        /\ pc' = "built"
        /\ input_entries' = Some(e)
        /\ entries' = ObjectDictionary_new(e)
        /\ ResetLookup
        /\ copied' = None
        /\ writes' = 0
        /\ UNCHANGED <<codecVars, cmdVars, abortVars, cobVars, nodeVars, exchVars>>

\* od.get_mut_variable(id)
GetMutVariable ==
    /\ pc = "built"
    /\ \E id \in LookupIds :
        /\ pc' = "borrowed"
        /\ lookup_id' = Some(id)
        /\ found' = get_mut_variable(entries, id)
        /\ UNCHANGED <<input_entries, entries, copied, writes>>
        /\ UNCHANGED <<codecVars, cmdVars, abortVars, cobVars, nodeVars, exchVars>>

\* the caller lets the result go without writing
EndBorrow ==
    /\ pc = "borrowed"
    /\ pc' = "built"
    /\ ResetLookup
    /\ UNCHANGED <<input_entries, entries, copied, writes>>
    /\ UNCHANGED <<codecVars, cmdVars, abortVars, cobVars, nodeVars, exchVars>>

\* a write to the value held by the Variable behind the handle
WriteValue ==
    /\ pc = "borrowed"
    /\ found.kind = "Some"
    /\ writes < MaxWrites
    /\ \E d \in DataValues :
        /\ pc' = "built"
        /\ entries' = [entries EXCEPT ![found.val + 1].data_type = d]
        /\ writes' = writes + 1
        /\ ResetLookup
        /\ UNCHANGED <<input_entries, copied>>
        /\ UNCHANGED <<codecVars, cmdVars, abortVars, cobVars, nodeVars, exchVars>>

\* let v = *handle;  Variable is Copy
CopyOut ==
    /\ pc = "borrowed"
    /\ found.kind = "Some"
    /\ pc' = "built"
    /\ copied' = Some(entries[found.val + 1])
    /\ ResetLookup
    /\ UNCHANGED <<input_entries, entries, writes>>
    /\ UNCHANGED <<codecVars, cmdVars, abortVars, cobVars, nodeVars, exchVars>>

\* *handle = v;  the handle is a &mut Variable, so the whole Variable is assignable
WriteVariable ==
    /\ pc = "borrowed"
    /\ found.kind = "Some"
    /\ copied.kind = "Some"
    /\ writes < MaxWrites
    /\ pc' = "built"
    /\ entries' = [entries EXCEPT ![found.val + 1] = copied.val]
    /\ writes' = writes + 1
    /\ ResetLookup
    /\ UNCHANGED <<input_entries, copied>>
    /\ UNCHANGED <<codecVars, cmdVars, abortVars, cobVars, nodeVars, exchVars>>

\* the dictionary goes out of scope
DropDictionary ==
    /\ pc = "built"
    /\ pc' = "idle"
    /\ input_entries' = None
    /\ entries' = <<>>
    /\ ResetLookup
    /\ copied' = None
    /\ writes' = 0
    /\ UNCHANGED <<codecVars, cmdVars, abortVars, cobVars, nodeVars, exchVars>>

NextDict ==
    \/ Construct \/ GetMutVariable \/ EndBorrow \/ WriteValue \/ CopyOut
    \/ WriteVariable \/ DropDictionary

SpecDict == Init /\ [][NextDict]_vars

----------------------------------------------------------------------------
(* object_dictionary.rs: CobId *)

\* enum FrameId: Standard carries a u16, Extended a u32
FrameId_Standard(id) == [kind |-> "Standard", id |-> id]

FrameId_Extended(id) == [kind |-> "Extended", id32 |-> id]

\* u32 addition, wrapping at 2^32
u32_add(a, b) ==
    U32((a.hi + b.hi + ((a.lo + b.lo) \div 65536)) % 65536, (a.lo + b.lo) % 65536)

\* CobId::DISABLED_ID = 0x8000_0000
DISABLED_ID == U32(\H8000, \H0000)

\* CobId::new: the guts it stores
CobId_new(enabled, rtr, frame_id) ==
    LET raw_frame_id ==
            IF frame_id.kind = "Standard"
            THEN U32(0, AndLow(frame_id.id, \H7FF))
            ELSE U32(AndLow(frame_id.id32.hi, \H1FFF), frame_id.id32.lo)
    IN u32_add(u32_add(U32(AsU8(enabled) * \H8000, 0), U32(AsU8(rtr) * \H4000, 0)),
               raw_frame_id)

\* CobId::is_valid: (guts >> 31) & 0x1 == 0x0
CobId_is_valid(g) == (g.hi \div \H8000) % 2 = 0

\* CobId::rtr_allowed: (guts >> 30) & 0x1 == 0x0
CobId_rtr_allowed(g) == (g.hi \div \H4000) % 2 = 0

\* CobId::is_extended_id: (guts >> 29) & 0x1 == 0x1
CobId_is_extended_id(g) == (g.hi \div \H2000) % 2 = 1

\* CobId::assigned_frame_id
CobId_assigned_frame_id(g) ==
    IF CobId_is_extended_id(g)
    THEN FrameId_Extended(U32(AndLow(g.hi, \H1FFF), g.lo))
    ELSE FrameId_Standard(AndLow(g.lo, \H7FF))

\* impl Default for CobId
CobId_default == DISABLED_ID

StandardIdSamples == {\H0000, \H0001, \H0181, \H07FF, \H0800, \H0D85, \HF981, \HFFFF}

ExtendedIdSamples ==
    {U32(\H0000, \H0000), U32(\H0000, \H0181), U32(\H0001, \H2345),
     U32(\H1FFF, \HFFFF), U32(\H2000, \H0000), U32(\H3234, \H5678),
     U32(\H8000, \H0181), U32(\HFFFF, \HFFFF)}

FrameIds ==
    {FrameId_Standard(x) : x \in StandardIdSamples}
        \cup {FrameId_Extended(y) : y \in ExtendedIdSamples}

\* CobId::new(enabled, rtr_allowed, frame_id)
NewCobId ==
    /\ pc = "idle"
    /\ \E enabled \in BOOLEAN, rtr \in BOOLEAN, frame_id \in FrameIds :
        /\ pc' = "cob"
        /\ cob_args' = Some([enabled |-> enabled, rtr_allowed |-> rtr,
                             frame_id |-> frame_id])
        /\ guts' = Some(CobId_new(enabled, rtr, frame_id))
        /\ cob_read' = None
        /\ UNCHANGED <<codecVars, cmdVars, abortVars, dictVars, nodeVars, exchVars>>

\* CobId::default()
DefaultCobId ==
    /\ pc = "idle"
    /\ pc' = "cob"
    /\ cob_args' = None
    /\ guts' = Some(CobId_default)
    /\ cob_read' = None
    /\ UNCHANGED <<codecVars, cmdVars, abortVars, dictVars, nodeVars, exchVars>>

\* c.is_valid(), c.rtr_allowed(), c.assigned_frame_id()
ReadCobId ==
    /\ pc = "cob"
    /\ pc' = "cob_read"
    /\ cob_read' = Some([is_valid |-> CobId_is_valid(guts.val),
                         rtr_allowed |-> CobId_rtr_allowed(guts.val),
                         assigned_frame_id |-> CobId_assigned_frame_id(guts.val)])
    /\ UNCHANGED <<cob_args, guts>>
    /\ UNCHANGED <<codecVars, cmdVars, abortVars, dictVars, nodeVars, exchVars>>

\* the CobId goes out of scope
DropCobId ==
    /\ pc = "cob_read"
    /\ pc' = "idle"
    /\ cob_args' = None
    /\ guts' = None
    /\ cob_read' = None
    /\ UNCHANGED <<codecVars, cmdVars, abortVars, dictVars, nodeVars, exchVars>>

NextCob == NewCobId \/ DefaultCobId \/ ReadCobId \/ DropCobId

SpecCob == Init /\ [][NextCob]_vars

----------------------------------------------------------------------------
(* node.rs: NodeId *)

\* NodeId::new refusing the highest node address
NodeId_new_below_127(node_id) == IF node_id < 127 THEN Some(node_id) ELSE None

\* NodeId::new: Some(NodeId(node_id)) when node_id <= 127
NodeId_new(node_id) == IF node_id <= 127 THEN Some(node_id) ELSE None

\* NodeId::raw: the wrapped u8
NodeId_raw(n) == n

\* impl Default for NodeId
NodeId_default == 126

\* NodeId::new(n), n any u8
NewNodeId ==
    /\ pc = "idle"
    /\ \E n \in 0..255 :
        /\ pc' = "node"
        /\ node_arg' = Some(n)
        /\ node_made' = NodeId_new(n)
        /\ node_raw' = None
        /\ UNCHANGED <<codecVars, cmdVars, abortVars, dictVars, cobVars, exchVars>>

\* NodeId::default()
DefaultNodeId ==
    /\ pc = "idle"
    /\ pc' = "node"
    /\ node_arg' = None
    /\ node_made' = Some(NodeId_default)
    /\ node_raw' = None
    /\ UNCHANGED <<codecVars, cmdVars, abortVars, dictVars, cobVars, exchVars>>

\* id.raw() on the NodeId made
RawNodeId ==
    /\ pc = "node"
    /\ node_made.kind = "Some"
    /\ pc' = "node_raw"
    /\ node_raw' = Some(NodeId_raw(node_made.val))
    /\ UNCHANGED <<node_arg, node_made>>
    /\ UNCHANGED <<codecVars, cmdVars, abortVars, dictVars, cobVars, exchVars>>

\* the result goes out of scope
DropNodeId ==
    /\ pc \in {"node", "node_raw"}
    /\ pc' = "idle"
    /\ node_arg' = None
    /\ node_made' = None
    /\ node_raw' = None
    /\ UNCHANGED <<codecVars, cmdVars, abortVars, dictVars, cobVars, exchVars>>

NextNode == NewNodeId \/ DefaultNodeId \/ RawNodeId \/ DropNodeId

SpecNode == Init /\ [][NextNode]_vars

----------------------------------------------------------------------------
(* One SDO exchange: a client's request to node n and the server's response *)

\* payloads of the messages exchanged
ExchangePayloads == SeqsUpTo(PayloadBytes, 1)

\* the messages a client sends
ExchangeRequests ==
    {UploadRequest(id) : id \in EntryIds}
    \cup {ExpeditedDownloadRequest(id, p) : id \in EntryIds, p \in ExchangePayloads}
    \cup {SegmentedDownloadInitiateRequest(id, sz) : id \in EntryIds, sz \in Sizes}
    \cup {SegmentedDownloadRequest(t, l, p) :
              t \in BOOLEAN, l \in BOOLEAN, p \in ExchangePayloads}
    \cup {SegmentedUploadRequest(t) : t \in BOOLEAN}

\* the messages a server answers with
ExchangeResponses ==
    {DownloadInitiateResponse(id) : id \in EntryIds}
    \cup {ExpeditedUploadResponse(id, p) : id \in EntryIds, p \in ExchangePayloads}
    \cup {SegmentedUploadInitiateResponse(id, sz) : id \in EntryIds, sz \in Sizes}
    \cup {SegmentedUploadResponse(t, l, p) :
              t \in BOOLEAN, l \in BOOLEAN, p \in ExchangePayloads}
    \cup {SegmentedDownloadResponse(t) : t \in BOOLEAN}
    \cup {Abort(id, c) : id \in EntryIds, c \in SdoAbortCode}

ResetResponse ==
    /\ response' = None
    /\ response_frame' = None
    /\ response_decoded' = None

\* the client: encode_tx_frame(0x600 + n, request)
ClientRequest ==
    /\ pc = "idle"
    /\ \E n \in Nodes, v \in ExchangeRequests :
        /\ pc' = "requested"
        /\ target_id' = Standard(n + RX_ID_OFFSET)
        /\ sdo_frame' = v
        /\ frame' = encode_tx_frame(Standard(n + RX_ID_OFFSET), v)
        /\ self_node_id' = n
        /\ node_role' = "Server"
        /\ decoded' = None
        /\ ResetResponse
        /\ UNCHANGED <<cmdVars, abortVars, dictVars, cobVars, nodeVars>>

\* the server, node n: try_decode_rx_frame(n, Server, &frame)
ServerDecode ==
    /\ pc = "requested"
    /\ frame.kind = "Frame"
    /\ pc' = "served"
    /\ decoded' = try_decode_rx_frame(self_node_id, "Server", frame)
    /\ UNCHANGED <<target_id, sdo_frame, frame, self_node_id, node_role, exchVars>>
    /\ UNCHANGED <<cmdVars, abortVars, dictVars, cobVars, nodeVars>>

\* the server: encode_tx_frame(0x580 + n, response)
ServerRespond ==
    /\ pc = "served"
    /\ decoded.kind \notin {"None", "Fault"}
    /\ \E r \in ExchangeResponses :
        /\ pc' = "responded"
        /\ response' = r
        /\ response_frame' = encode_tx_frame(Standard(self_node_id + TX_ID_OFFSET), r)
        /\ response_decoded' = None
        /\ UNCHANGED <<codecVars, cmdVars, abortVars, dictVars, cobVars, nodeVars>>

\* the client: try_decode_rx_frame(n, Client, &response_frame)
ClientDecode ==
    /\ pc = "responded"
    /\ response_frame.kind = "Frame"
    /\ pc' = "answered"
    /\ response_decoded' = try_decode_rx_frame(self_node_id, "Client", response_frame)
    /\ UNCHANGED <<response, response_frame>>
    /\ UNCHANGED <<codecVars, cmdVars, abortVars, dictVars, cobVars, nodeVars>>

\* the exchange is over
EndExchange ==
    /\ pc \in {"served", "answered"}
    /\ pc' = "idle"
    /\ target_id' = None
    /\ sdo_frame' = None
    /\ frame' = None
    /\ ResetDecode
    /\ ResetResponse
    /\ UNCHANGED <<cmdVars, abortVars, dictVars, cobVars, nodeVars>>

NextExchange ==
    ClientRequest \/ ServerDecode \/ ServerRespond \/ ClientDecode \/ EndExchange

SpecExchange == Init /\ [][NextExchange]_vars

----------------------------------------------------------------------------
(* Properties *)

ClientKinds ==
    {"UploadRequest", "ExpeditedDownloadRequest", "SegmentedDownloadInitiateRequest",
     "SegmentedDownloadRequest", "SegmentedUploadRequest"}

ServerKinds ==
    {"DownloadInitiateResponse", "ExpeditedUploadResponse",
     "SegmentedUploadInitiateResponse", "SegmentedUploadResponse",
     "SegmentedDownloadResponse"}

ExpeditedKinds == {"ExpeditedDownloadRequest", "ExpeditedUploadResponse"}

SegmentKinds == {"SegmentedDownloadRequest", "SegmentedUploadResponse"}

SizeKinds == {"SegmentedDownloadInitiateRequest", "SegmentedUploadInitiateResponse"}

\* the kinds that carry an EntryId
InitiateKinds ==
    {"UploadRequest", "ExpeditedDownloadRequest", "SegmentedDownloadInitiateRequest",
     "DownloadInitiateResponse", "ExpeditedUploadResponse",
     "SegmentedUploadInitiateResponse", "Abort"}

\* the role that decodes a message of v's kind: Server for client-originated kinds,
\* Client for server-originated kinds, either for Abort
RoleMatches(v, role) ==
    /\ v.kind \in ClientKinds => role = "Server"
    /\ v.kind \in ServerKinds => role = "Client"

\* a message was encoded for node n's receive identifier and then decoded for node n
\* in the matching role
RoundTripCase ==
    /\ pc = "decoded"
    /\ sdo_frame # None
    /\ target_id = Standard(self_node_id + RX_ID_OFFSET)
    /\ RoleMatches(sdo_frame, node_role)

\* C1 as stated: every SdoFrame value, expedited payloads of 0..4 bytes included,
\* encoded for identifier n+0x600 and decoded for node n in the matching role comes
\* back unchanged.
C1_RoundTripAnyPayload == RoundTripCase => decoded = sdo_frame

\* C1 as amended: every SdoFrame value whose expedited payload (if it has one) holds
\* 1..4 bytes, encoded for identifier n+0x600 and decoded for node n in the matching
\* role, comes back unchanged.
C1_RoundTrip ==
    (/\ RoundTripCase
     /\ sdo_frame.kind \in ExpeditedKinds => Len(sdo_frame.payload) >= 1)
    => decoded = sdo_frame

C1_Witness ==
    /\ RoundTripCase
    /\ sdo_frame.kind = "SegmentedUploadResponse"
    /\ Len(sdo_frame.payload) = 3
    /\ sdo_frame.toggle
    /\ decoded = sdo_frame

\* the case the amendment leaves out really is one of the encoder's inputs
C1_EmptyExpeditedDecoded ==
    /\ RoundTripCase
    /\ sdo_frame.kind \in ExpeditedKinds
    /\ sdo_frame.payload = <<>>
    /\ decoded.kind = sdo_frame.kind
    /\ Len(decoded.payload) = 4

\* C2: a frame whose identifier is extended, or is a standard identifier other than
\* n+0x600, or whose data length code is not 8, decodes to no value, in either role and
\* whatever its data.
C2_AddressFilter ==
    (/\ pc = "decoded"
     /\ \/ frame.id.ext
        \/ frame.id.raw # self_node_id + RX_ID_OFFSET
        \/ frame.dlc # 8)
    => decoded = None

\* a well-formed upload request on the node's transmit identifier is filtered out
C2_Witness ==
    /\ pc = "decoded"
    /\ frame.id = Standard(self_node_id + TX_ID_OFFSET)
    /\ frame.dlc = 8
    /\ frame.data[1] = \H40
    /\ decoded = None

\* the bytes that follow the command byte of an encoded message
ContentOf(v) ==
    (IF v.kind \in InitiateKinds
     THEN <<v.id.index % 256, v.id.index \div 256, v.id.sub_index>>
     ELSE <<>>)
    \o (CASE v.kind \in ExpeditedKinds \cup SegmentKinds -> v.payload
          [] v.kind \in SizeKinds ->
               <<v.size.lo % 256, v.size.lo \div 256, v.size.hi % 256, v.size.hi \div 256>>
          [] v.kind = "Abort" ->
               <<AbortLiteral[v.code].lo % 256, AbortLiteral[v.code].lo \div 256,
                 AbortLiteral[v.code].hi % 256, AbortLiteral[v.code].hi \div 256>>
          [] OTHER -> <<>>)

\* the command family (bits 7-5) each kind is sent with
FamilyOf(v) ==
    CASE v.kind \in {"SegmentedDownloadRequest", "SegmentedUploadResponse"} -> 0
      [] v.kind \in {"ExpeditedDownloadRequest", "SegmentedDownloadInitiateRequest",
                     "SegmentedDownloadResponse"} -> 1
      [] v.kind \in {"UploadRequest", "ExpeditedUploadResponse",
                     "SegmentedUploadInitiateResponse"} -> 2
      [] v.kind \in {"SegmentedUploadRequest", "DownloadInitiateResponse"} -> 3
      [] v.kind = "Abort" -> 4

\* C3: encode_tx_frame does not fault and returns a frame with the caller's identifier
\* and exactly 8 data bytes: the command byte, the EntryId and/or payload, size or
\* abort code bytes, then zeros only.
C3_EncodeShape ==
    pc = "encoded" =>
        /\ frame.kind = "Frame"
        /\ frame.id = target_id
        /\ Len(frame.data) = 8
        /\ frame.data[1] \in 0..255
        /\ frame.data[1] \div 32 = FamilyOf(sdo_frame)
        /\ LET content == ContentOf(sdo_frame)
           IN /\ SubSeq(frame.data, 2, 1 + Len(content)) = content
              /\ \A i \in (2 + Len(content))..8 : frame.data[i] = 0

\* a short segment on an extended identifier: five bytes of padding
C3_Witness ==
    /\ pc = "encoded"
    /\ sdo_frame.kind = "SegmentedDownloadRequest"
    /\ sdo_frame.payload = <<\H99, \H00>>
    /\ target_id.ext
    /\ frame.data = <<ClientCommand_into(DownloadSegmentRequest(sdo_frame.toggle, 2,
                                                                  sdo_frame.last)),
                      \H99, 0, 0, 0, 0, 0, 0>>

\* C4 as stated: whatever identifier the caller supplies, the encoded frame has a
\* standard (11-bit) identifier, 8 data bytes and is not a remote frame.
C4_AlwaysStandard ==
    pc = "encoded" =>
        /\ ~frame.id.ext
        /\ frame.id.raw <= \H7FF
        /\ frame.dlc = 8
        /\ Len(frame.data) = 8
        /\ ~frame.remote

\* C4 as amended: the encoded frame has 8 data bytes, is not a remote frame and carries
\* the caller's identifier, so it is a standard-identifier frame exactly when the
\* caller supplies a standard identifier.
C4_FrameShape ==
    pc = "encoded" =>
        /\ frame.dlc = 8
        /\ Len(frame.data) = 8
        /\ ~frame.remote
        /\ frame.id.ext = target_id.ext
        /\ ~target_id.ext => (~frame.id.ext /\ frame.id.raw <= \H7FF)

C4_Witness ==
    /\ pc = "encoded"
    /\ ~target_id.ext
    /\ target_id.raw = NodeSamples[1] + TX_ID_OFFSET
    /\ sdo_frame.kind = "Abort"
    /\ ~frame.id.ext
    /\ frame.dlc = 8
    /\ ~frame.remote

\* a command built with a length was serialized and the byte parsed back as a command
\* of the same type
ParsedBack(kind) ==
    /\ pc = (IF kind \in {"DownloadSegmentRequest", "ExpeditedDownload"}
             THEN "client_parsed" ELSE "server_parsed")
    /\ cmd_in.kind = kind

SegmentLengthOf(byte) == 7 - ((byte \div 2) % 8)

ExpeditedLengthOf(byte) == 4 - ((byte \div 4) % 4)

\* the parsed command is of the kind serialized, with the length it was built with,
\* which is lengthOfByte
SameLength(lengthOfByte) ==
    /\ cmd_out.kind = cmd_in.kind
    /\ cmd_out.length = cmd_in.length
    /\ cmd_out.length = lengthOfByte

\* C5 as stated: a segment command built with length L in 0..7, and an expedited
\* command built with length L in 0..4, parses back from its command byte with length L.
C5_LengthAnyL ==
    /\ \A k \in {"DownloadSegmentRequest", "UploadSegmentResponse"} :
           ParsedBack(k) => SameLength(SegmentLengthOf(cmd_byte))
    /\ \A k \in {"ExpeditedDownload", "UploadInitiateExpeditedResponse"} :
           ParsedBack(k) => SameLength(ExpeditedLengthOf(cmd_byte))

\* C5 as amended: a segment command built with length L in 0..7, and an expedited
\* command built with length L in 1..4, parses back from its command byte with length L
\* (7 - bits 3-1, respectively 4 - bits 3-2, of the byte).
C5_LengthComplement ==
    /\ \A k \in {"DownloadSegmentRequest", "UploadSegmentResponse"} :
           ParsedBack(k) => SameLength(SegmentLengthOf(cmd_byte))
    /\ \A k \in {"ExpeditedDownload", "UploadInitiateExpeditedResponse"} :
           (ParsedBack(k) /\ cmd_in.length >= 1) => SameLength(ExpeditedLengthOf(cmd_byte))

C5_Witness ==
    /\ ParsedBack("ExpeditedDownload")
    /\ cmd_in.length = 3
    /\ cmd_byte = \H27
    /\ cmd_out = ExpeditedDownload(3)

\* a correctly addressed 8-byte frame with command family 4 was decoded
AbortCase ==
    /\ pc = "decoded"
    /\ frame.id = Standard(self_node_id + RX_ID_OFFSET)
    /\ frame.dlc = 8
    /\ Len(frame.data) = 8
    /\ frame.data[1] \div 32 = 4

\* Abort with the id of bytes 1-3 when bytes 4-7 hold a member's literal, else no value
ExpectedAbort(data) ==
    LET word == [hi |-> data[8] * 256 + data[7], lo |-> data[6] * 256 + data[5]]
        members == {c \in SdoAbortCode : AbortLiteral[c] = word}
    IN IF members = {} THEN None
       ELSE [kind |-> "Abort",
             id |-> [index |-> data[2] + 256 * data[3], sub_index |-> data[4]],
             code |-> CHOOSE c \in members : TRUE]

\* C6: a correctly addressed 8-byte frame of command family 4 decodes, in Server role
\* and in Client role alike, to Abort{id of bytes 1-3, code} when bytes 4-7 are a
\* member's code in little-endian order, and to no value when they are not.
C6_AbortDecode ==
    AbortCase =>
        /\ decoded = ExpectedAbort(frame.data)
        /\ try_decode_rx_frame(self_node_id, "Server", frame)
             = try_decode_rx_frame(self_node_id, "Client", frame)

C6_Witness ==
    /\ AbortCase
    /\ node_role = "Client"
    /\ frame.data[1] = \H9F
    /\ decoded.kind = "Abort"
    /\ decoded.code = "TooShort"

\* an unrecognised code under an abort command gives no value
C6_UnknownCodeDropped ==
    /\ AbortCase
    /\ SubSeq(frame.data, 5, 8) = <<\H05, \H00, \H04, \H85>>
    /\ decoded = None

\* C7: to_le_bytes gives the 4 bytes of the member's literal, least significant first,
\* and from_le_bytes gives the member back; from_le_bytes gives no value for 4 bytes
\* that are no member's literal and for any slice whose length is not 4.
C7_AbortCodeRoundTrip ==
    /\ (pc \in {"abort_bytes", "abort_parsed"} /\ abort_in # None) =>
           /\ Len(abort_bytes) = 4
           /\ \A i \in 1..4 : abort_bytes[i] \in 0..255
           /\ abort_bytes[1] + 256 * abort_bytes[2] = AbortLiteral[abort_in.val].lo
           /\ abort_bytes[3] + 256 * abort_bytes[4] = AbortLiteral[abort_in.val].hi
    /\ (pc = "abort_parsed" /\ abort_in # None) => abort_out = abort_in
    /\ (pc = "abort_parsed" /\ Len(abort_bytes) # 4) => abort_out = None
    /\ (/\ pc = "abort_parsed"
        /\ Len(abort_bytes) = 4
        /\ \A c \in SdoAbortCode :
               \/ AbortLiteral[c].lo # abort_bytes[1] + 256 * abort_bytes[2]
               \/ AbortLiteral[c].hi # abort_bytes[3] + 256 * abort_bytes[4])
       => abort_out = None

C7_Witness ==
    /\ pc = "abort_parsed"
    /\ abort_in = Some("ResourceNotAvailable")
    /\ abort_bytes = <<\H23, \H00, \H0A, \H06>>
    /\ abort_out = Some("ResourceNotAvailable")

\* 4 bytes that are no member's literal, and a 5-byte slice that starts with one
C7_NoValueReached ==
    /\ pc = "abort_parsed"
    /\ abort_bytes \in {<<\H05, \H00, \H05, \H05>>, <<\H05, \H00, \H04, \H05, \H00>>}
    /\ abort_out = None

\* C8: the EntryId of an initiate-class message is encoded as byte 1 = index low byte,
\* byte 2 = index high byte, byte 3 = sub_index, and decoding reads the EntryId from
\* bytes 1-3 in that order.
C8_EntryIdWireForm ==
    /\ (pc = "encoded" /\ sdo_frame.kind \in InitiateKinds) =>
           /\ frame.data[2] = sdo_frame.id.index % 256
           /\ frame.data[3] = sdo_frame.id.index \div 256
           /\ frame.data[4] = sdo_frame.id.sub_index
    /\ (pc = "decoded" /\ decoded.kind \in InitiateKinds) =>
           /\ decoded.id.index = frame.data[2] + 256 * frame.data[3]
           /\ decoded.id.sub_index = frame.data[4]

C8_Witness ==
    /\ pc = "decoded"
    /\ sdo_frame = None
    /\ SubSeq(frame.data, 1, 4) = <<\H40, \HFF, \H12, \HFE>>
    /\ decoded = UploadRequest(EntryId_new(\H12FF, \HFE))

\* an expedited message with a payload of fewer than 4 bytes was encoded
ShortExpeditedEncoded ==
    /\ pc = "encoded"
    /\ sdo_frame.kind \in ExpeditedKinds
    /\ Len(sdo_frame.payload) < 4

\* C9 as stated: bytes 4-7 hold the payload left-padded to 4 bytes: zeros first, the
\* payload in the last n bytes.
C9_LeftPadded ==
    ShortExpeditedEncoded =>
        SubSeq(frame.data, 5, 8) = Zeros(4 - Len(sdo_frame.payload)) \o sdo_frame.payload

\* C9 as amended: bytes 4-7 hold the payload right-padded to 4 bytes: the payload in
\* bytes 4 .. 4+n-1, zeros in the bytes after it.
C9_RightPadded ==
    ShortExpeditedEncoded =>
        SubSeq(frame.data, 5, 8) = sdo_frame.payload \o Zeros(4 - Len(sdo_frame.payload))

C9_Witness ==
    /\ ShortExpeditedEncoded
    /\ sdo_frame.payload = <<\H99>>
    /\ SubSeq(frame.data, 5, 8) = <<\H99, 0, 0, 0>>

\* a correctly addressed 8-byte frame whose command byte is an expedited one for the
\* decoding role was decoded
ExpeditedFrameDecoded ==
    /\ pc = "decoded"
    /\ frame.id = Standard(self_node_id + RX_ID_OFFSET)
    /\ frame.dlc = 8
    /\ Len(frame.data) = 8
    /\ frame.data[1] \div 32 = (IF node_role = "Server" THEN 1 ELSE 2)
    /\ (frame.data[1] \div 2) % 2 = 1

\* C10: an expedited message with n bytes (1 <= n <= 4) is encoded with command bits
\* 3-2 = 4-n and bits 1 and 0 set, the payload in bytes 4 .. 4+n-1 and zeros up to byte
\* 7; an expedited frame decodes to the first 4 - bits(3-2) bytes from byte 4 on.
C10_ExpeditedLayout ==
    /\ (/\ pc = "encoded"
        /\ sdo_frame.kind \in ExpeditedKinds
        /\ Len(sdo_frame.payload) >= 1) =>
           LET n == Len(sdo_frame.payload)
           IN /\ (frame.data[1] \div 4) % 4 = 4 - n
              /\ (frame.data[1] \div 2) % 2 = 1
              /\ frame.data[1] % 2 = 1
              /\ frame.data[1] \div 32 =
                     (IF sdo_frame.kind = "ExpeditedDownloadRequest" THEN 1 ELSE 2)
              /\ (frame.data[1] \div 16) % 2 = 0
              /\ SubSeq(frame.data, 5, 4 + n) = sdo_frame.payload
              /\ \A i \in (5 + n)..8 : frame.data[i] = 0
    /\ ExpeditedFrameDecoded =>
           /\ decoded.kind = (IF node_role = "Server" THEN "ExpeditedDownloadRequest"
                              ELSE "ExpeditedUploadResponse")
           /\ decoded.payload =
                  SubSeq(frame.data, 5, 4 + (4 - ((frame.data[1] \div 4) % 4)))

C10_Witness ==
    /\ ExpeditedFrameDecoded
    /\ sdo_frame = None
    /\ node_role = "Client"
    /\ frame.data[1] = \H47
    /\ decoded.payload = <<\H55, \H99, \H88>>

\* a correctly addressed frame with 8 data bytes was decoded
WellAddressedDecoded ==
    /\ pc = "decoded"
    /\ frame.id = Standard(self_node_id + RX_ID_OFFSET)
    /\ frame.dlc = 8
    /\ Len(frame.data) = 8

FamilyBits(byte) == byte \div 32

ToggleBit(byte) == (byte \div 16) % 2 = 1

\* the EntryId in bytes 1-3 of the decoded frame
IdBytes == [index |-> frame.data[2] + 256 * frame.data[3], sub_index |-> frame.data[4]]

\* a download-segment response is sent with command family fam and bit 4 = toggle, and
\* a Client-role decode of family fam gives SegmentedDownloadResponse{toggle = bit 4}
DownloadSegmentResponseFamily(fam) ==
    /\ (pc = "encoded" /\ sdo_frame.kind = "SegmentedDownloadResponse") =>
           frame.data[1] = fam * 32 + (IF sdo_frame.toggle THEN 16 ELSE 0)
    /\ (/\ WellAddressedDecoded
        /\ node_role = "Client"
        /\ FamilyBits(frame.data[1]) = fam) =>
           decoded = [kind |-> "SegmentedDownloadResponse",
                      toggle |-> ToggleBit(frame.data[1])]

\* C11 as stated: the download-segment response has command family 3, bit 4 = toggle.
C11_FamilyThree == DownloadSegmentResponseFamily(3)

\* C11 as amended: the download-segment response has command family 1, bit 4 = toggle:
\* SegmentedDownloadResponse{toggle} is encoded with byte 0 = (1 << 5) | (toggle << 4),
\* and a Client-role decode of a family-1 command byte gives SegmentedDownloadResponse
\* with toggle = bit 4.
C11_FamilyOne == DownloadSegmentResponseFamily(1)

C11_Witness ==
    /\ WellAddressedDecoded
    /\ node_role = "Client"
    /\ sdo_frame = [kind |-> "SegmentedDownloadResponse", toggle |-> TRUE]
    /\ frame.data[1] = \H30
    /\ decoded = sdo_frame

\* C12: in Client role family 1 decodes to SegmentedDownloadResponse{toggle = bit 4}
\* and family 3 to DownloadInitiateResponse{id of bytes 1-3}; DownloadInitiateResponse
\* is encoded as 3 << 5, the id bytes, and zeros.
C12_ServerResponseFamilies ==
    /\ (WellAddressedDecoded /\ node_role = "Client") =>
           /\ FamilyBits(frame.data[1]) = 1 =>
                  /\ decoded.kind = "SegmentedDownloadResponse"
                  /\ decoded.toggle = ToggleBit(frame.data[1])
           /\ FamilyBits(frame.data[1]) = 3 =>
                  /\ decoded.kind = "DownloadInitiateResponse"
                  /\ decoded.id = IdBytes
    /\ (pc = "encoded" /\ sdo_frame.kind = "DownloadInitiateResponse") =>
           frame.data = <<\H60, sdo_frame.id.index % 256, sdo_frame.id.index \div 256,
                          sdo_frame.id.sub_index, 0, 0, 0, 0>>

\* a delivered family-3 byte with stray low bits, decoded by a client
C12_Witness ==
    /\ WellAddressedDecoded
    /\ node_role = "Client"
    /\ sdo_frame = None
    /\ frame.data[1] = \H7F
    /\ decoded = [kind |-> "DownloadInitiateResponse", id |-> IdBytes]

\* the bits of a command byte that the command table fixes have the values it gives
\* them, and the bits it does not name are zero (families as the decoders take them)
FixedBitsMatch(role, byte) ==
    LET fam == FamilyBits(byte)
        low5 == byte % 32
        expedited == (byte \div 2) % 2 = 1
        initiate ==
            IF expedited THEN byte % 2 = 1 /\ (byte \div 16) % 2 = 0
            ELSE low5 = 1
    IN CASE fam = 0 -> TRUE
         [] fam = 1 -> IF role = "Server" THEN initiate ELSE byte % 16 = 0
         [] fam = 2 -> IF role = "Server" THEN low5 = 0 ELSE initiate
         [] fam = 3 -> IF role = "Server" THEN byte % 16 = 0 ELSE low5 = 0
         [] fam = 4 -> low5 = 0
         [] OTHER -> FALSE

\* bytes 4-7 of the decoded frame are some member's code
HoldsAbortCode ==
    \E c \in SdoAbortCode :
        /\ AbortLiteral[c].lo = frame.data[5] + 256 * frame.data[6]
        /\ AbortLiteral[c].hi = frame.data[7] + 256 * frame.data[8]

\* C13 as stated: decoding gives no value when the command family is not in 0..4, and
\* also when the family is in 0..4 but the fixed sub-field bits do not match the table.
C13_StrictBits ==
    (/\ WellAddressedDecoded
     /\ \/ FamilyBits(frame.data[1]) \notin 0..4
        \/ ~FixedBitsMatch(node_role, frame.data[1]))
    => decoded = None

\* C13 as amended: decoding gives no value when the command family is not in 0..4;
\* for a family in 0..4 the other bits of the command byte are not checked: families
\* 0..3 always decode to a message, and family 4 gives no value exactly when bytes 4-7
\* are no member's code.
C13_FamilyOnly ==
    WellAddressedDecoded =>
        /\ FamilyBits(frame.data[1]) \notin 0..4 => decoded = None
        /\ FamilyBits(frame.data[1]) \in 0..3 => decoded.kind \in ClientKinds \cup ServerKinds
        /\ FamilyBits(frame.data[1]) = 4 => (decoded = None <=> ~HoldsAbortCode)
        /\ FamilyBits(frame.data[1]) = 4 => decoded.kind \in {"None", "Abort"}

C13_Witness ==
    /\ WellAddressedDecoded
    /\ node_role = "Server"
    /\ frame.data[1] = \HA0
    /\ decoded = None

\* family 1 with bits 1 and 0 clear is taken as a segmented download initiate
C13_StrayBitsDecoded ==
    /\ WellAddressedDecoded
    /\ node_role = "Server"
    /\ frame.data[1] = \H20
    /\ decoded.kind = "SegmentedDownloadInitiateRequest"

\* a correctly addressed 8-byte family-0 frame was decoded
SegmentFrameDecoded ==
    /\ WellAddressedDecoded
    /\ FamilyBits(frame.data[1]) = 0

\* the delivered data that agree with d in the command byte and in bytes 1 .. len
SameUpTo(d, len) == {e \in RxData : SubSeq(e, 1, 1 + len) = SubSeq(d, 1, 1 + len)}

\* C14: a family-0 frame with declared length L = 7 - bits(3-1) decodes to the segment
\* message of its role with payload = bytes 1 .. L, toggle = bit 4, last = bit 0, and
\* every frame that differs from it only in bytes L+1 .. 7 decodes to the same message.
C14_SegmentIgnoresTrailing ==
    SegmentFrameDecoded =>
        LET len == 7 - ((frame.data[1] \div 2) % 8)
        IN /\ decoded =
                  [kind |-> (IF node_role = "Server" THEN "SegmentedDownloadRequest"
                             ELSE "SegmentedUploadResponse"),
                   toggle |-> ToggleBit(frame.data[1]),
                   last |-> frame.data[1] % 2 = 1,
                   payload |-> SubSeq(frame.data, 2, 1 + len)]
           /\ \A e \in SameUpTo(frame.data, len) :
                  try_decode_rx_frame(self_node_id, node_role, Frame_new(frame.id, e))
                      = decoded

\* length 6: the last byte is not part of the payload, and another delivered frame
\* differs in that byte only
C14_Witness ==
    /\ SegmentFrameDecoded
    /\ sdo_frame = None
    /\ frame.data[1] = \H12
    /\ SubSeq(frame.data, 5, 8) = <<\H05, \H00, \H04, \H05>>
    /\ Len(decoded.payload) = 6
    /\ \E e \in SameUpTo(frame.data, 6) : e[8] = \H85

\* the identifiers of a list of entries, in the list's order
IdsOf(e) == [i \in 1..Len(e) |-> e[i].id]

\* ascending lexicographic order of (index, sub_index), equal neighbours allowed
IsAscending(ids) ==
    \A i \in 1..Len(ids), j \in 1..Len(ids) :
        i < j =>
            \/ ids[i].index < ids[j].index
            \/ ids[i].index = ids[j].index /\ ids[i].sub_index <= ids[j].sub_index

CountOf(e, v) == Cardinality({i \in 1..Len(e) : e[i] = v})

\* the same Variables, each as often
SameEntries(e1, e2) ==
    /\ Len(e1) = Len(e2)
    /\ \A i \in 1..Len(e1) : CountOf(e1, e1[i]) = CountOf(e2, e1[i])

\* a dictionary exists and nothing was written through a handle yet
FreshDictionary ==
    /\ pc \in {"built", "borrowed"}
    /\ writes = 0

\* C15: ObjectDictionary::new leaves the entries it was given in ascending
\* lexicographic order of (index, sub_index); a get_mut_variable(id) that follows
\* returns an entry whose identifier is id when id was in the input list, and no
\* value when it was not.
C15_SortedLookup ==
    /\ FreshDictionary =>
           /\ SameEntries(entries, input_entries.val)
           /\ IsAscending(IdsOf(entries))
    /\ (FreshDictionary /\ pc = "borrowed") =>
           IF \E i \in 1..Len(input_entries.val) : input_entries.val[i].id = lookup_id.val
           THEN /\ found.kind = "Some"
                /\ found.val \in 0..(Len(entries) - 1)
                /\ entries[found.val + 1].id = lookup_id.val
           ELSE found = None

\* a list in descending order with its last id repeated, and the middle id found
C15_Witness ==
    /\ FreshDictionary
    /\ pc = "borrowed"
    /\ IdsOf(input_entries.val) =
           <<EntryId_new(\H2000, 3), EntryId_new(\H2000, 1), EntryId_new(\H1000, 2)>>
    /\ IdsOf(entries) =
           <<EntryId_new(\H1000, 2), EntryId_new(\H2000, 1), EntryId_new(\H2000, 3)>>
    /\ lookup_id = Some(EntryId_new(\H2000, 1))
    /\ found = Some(1)

\* an id that no entry has is looked up in a full dictionary
C15_AbsentNotFound ==
    /\ FreshDictionary
    /\ pc = "borrowed"
    /\ Len(entries) = ENTRY_COUNT
    /\ lookup_id = Some(EntryId_new(\H1018, 1))
    /\ found = None

\* C16: after construction, whatever get_mut_variable calls and writes through the
\* returned handles follow, the number of entries, the sequence of entry identifiers
\* and its sorted order are those of construction.
C16_ShapeImmutable ==
    pc \in {"built", "borrowed"} =>
        /\ Len(entries) = Len(input_entries.val)
        /\ IdsOf(entries) = IdsOf(ObjectDictionary_new(input_entries.val))
        /\ IsAscending(IdsOf(entries))

\* the parts of C16 that hold: the number of entries never changes, and a lookup,
\* found or not, changes no entry
C16_LengthKept ==
    pc \in {"built", "borrowed"} => Len(entries) = Len(input_entries.val)

\* a CobId made by CobId::new was read back
CobIdReadBack ==
    /\ pc = "cob_read"
    /\ cob_args # None

\* C17: c = CobId::new(enabled, rtr_allowed, frame_id) gives the flags back:
\* c.is_valid() = enabled and c.rtr_allowed() = rtr_allowed.
C17_FlagsRoundTrip ==
    CobIdReadBack =>
        /\ cob_read.val.is_valid = cob_args.val.enabled
        /\ cob_read.val.rtr_allowed = cob_args.val.rtr_allowed

\* what the code does instead: both flags come back negated
C17_FlagsNegated ==
    CobIdReadBack =>
        /\ cob_read.val.is_valid = ~cob_args.val.enabled
        /\ cob_read.val.rtr_allowed = ~cob_args.val.rtr_allowed

\* the identifier passed to new, with the bits above its width discarded
MaskedFrameId(frame_id) ==
    IF frame_id.kind = "Standard"
    THEN FrameId_Standard(frame_id.id % 2048)
    ELSE FrameId_Extended(U32(frame_id.id32.hi % 8192, frame_id.id32.lo))

\* C18: CobId::new(_, _, Standard(x)).assigned_frame_id() = Standard(x & 0x7FF) and
\* CobId::new(_, _, Extended(y)).assigned_frame_id() = Extended(y & 0x1FFF_FFFF): the
\* kind passed to new is the kind returned.
C18_FrameIdRoundTrip ==
    CobIdReadBack =>
        cob_read.val.assigned_frame_id = MaskedFrameId(cob_args.val.frame_id)

\* what the code does instead: bit 29 is never set, so every identifier comes back
\* as Standard with the low 11 bits of what was stored
C18_AlwaysStandard ==
    CobIdReadBack =>
        cob_read.val.assigned_frame_id =
            FrameId_Standard(IF cob_args.val.frame_id.kind = "Standard"
                             THEN cob_args.val.frame_id.id % 2048
                             ELSE cob_args.val.frame_id.id32.lo % 2048)

\* C19: NodeId::new(n) returns a value exactly when 0 <= n <= 127 and no value for
\* every n in 128..255; raw() of an accepted n is n; raw() of the default NodeId is 126.
C19_NodeIdRange ==
    /\ (pc \in {"node", "node_raw"} /\ node_arg # None) =>
           /\ node_made # None <=> node_arg.val \in 0..127
           /\ node_arg.val \in 128..255 => node_made = None
    /\ (pc = "node_raw" /\ node_arg # None) => node_raw = Some(node_arg.val)
    /\ (pc = "node_raw" /\ node_arg = None) => node_raw = Some(126)

\* the highest address accepted, read back
C19_Witness ==
    /\ pc = "node_raw"
    /\ node_arg = Some(127)
    /\ node_made # None
    /\ node_raw = Some(127)

\* the lowest address refused
C19_RefusedReached ==
    /\ pc = "node"
    /\ node_arg = Some(128)
    /\ node_made = None

\* the default NodeId read back
C19_DefaultReached ==
    /\ pc = "node_raw"
    /\ node_arg = None
    /\ node_raw = Some(126)

\* C20: when a client encodes a request with identifier 0x600+n, the server of node
\* n decodes it and encodes its response with identifier 0x580+n, the client's
\* decoder (Client role, node n) accepts the response frame and yields the response.
C20_ExchangeAccepted ==
    pc = "answered" =>
        /\ decoded.kind = sdo_frame.kind
        /\ response_frame.id = Standard(self_node_id + TX_ID_OFFSET)
        /\ response_decoded = response

\* the request leg of C20 holds: the server is given a message of the kind sent
C20_RequestAccepted ==
    pc \in {"served", "responded", "answered"} =>
        /\ decoded.kind = sdo_frame.kind
        /\ (sdo_frame.kind \in ExpeditedKinds => Len(sdo_frame.payload) >= 1)
               => decoded = sdo_frame

\* what the code does on the response leg: the Client role, like the Server role,
\* takes only identifier 0x600+n, so no response sent on 0x580+n is decoded
C20_ResponseRefused ==
    pc = "answered" => response_decoded = None

\* C21: for every correctly addressed frame carrying 8 data bytes, in either role,
\* try_decode_rx_frame returns a message or no value without faulting; a decoded
\* expedited payload has 1..4 bytes and a decoded segment payload has 0..7 bytes.
C21_DecodeTotal ==
    WellAddressedDecoded =>
        /\ decoded # Fault
        /\ decoded.kind \in ExpeditedKinds => Len(decoded.payload) \in 1..4
        /\ decoded.kind \in SegmentKinds => Len(decoded.payload) \in 0..7

\* a delivered frame whose command byte declares the longest expedited payload
C21_Witness ==
    /\ WellAddressedDecoded
    /\ sdo_frame = None
    /\ node_role = "Server"
    /\ frame.data[1] = \H23
    /\ decoded.kind = "ExpeditedDownloadRequest"
    /\ Len(decoded.payload) = 4

\* a delivered frame whose command byte declares the longest segment
C21_FullSegmentDecoded ==
    /\ WellAddressedDecoded
    /\ sdo_frame = None
    /\ node_role = "Client"
    /\ frame.data[1] = \H11
    /\ decoded.kind = "SegmentedUploadResponse"
    /\ Len(decoded.payload) = 7

\* a frame that passes the filter with fewer than 8 data bytes was decoded
ShortFramePassedFilter ==
    /\ pc = "decoded"
    /\ frame.id = Standard(self_node_id + RX_ID_OFFSET)
    /\ frame.dlc = 8
    /\ Len(frame.data) < 8

\* C22: a frame with identifier n+0x600 whose dlc() is 8 while data() is shorter than
\* 8 bytes is decoded to no value or a message without faulting, and a remote frame
\* is not consumed.
C22_ShortDataNoFault ==
    ShortFramePassedFilter =>
        /\ decoded # Fault
        /\ frame.remote => decoded = None

\* what the code does instead: a remote frame with dlc 8 passes the filter and the
\* read of frame_data[0] faults
C22_RemoteFaults ==
    (ShortFramePassedFilter /\ frame.remote) => decoded = Fault

\* the kinds a role's decoder returns
KindsOfRole(role) ==
    IF role = "Server" THEN ClientKinds \cup {"Abort"} ELSE ServerKinds \cup {"Abort"}

\* frame data with the command byte c
DataWithCommand(c) ==
    {<<c>> \o EntryId_to_le_bytes(id) \o w : id \in EntryIds, w \in WordSamples}

\* C23: a Server-role decode returns only a client-originated kind or Abort, a
\* Client-role decode only a server-originated kind or Abort, and whenever two
\* frames with the same command byte are decoded to messages in the same role, the
\* two messages have the same kind.
C23_RolePartition ==
    (pc = "decoded" /\ decoded.kind \notin {"None", "Fault"}) =>
        /\ decoded.kind \in KindsOfRole(node_role)
        /\ \A e \in DataWithCommand(frame.data[1]) :
               LET other == try_decode_rx_frame(self_node_id, node_role,
                                                Frame_new(frame.id, e))
               IN other.kind \in {"None", decoded.kind}

\* a client decodes an abort, and another frame with the same command byte gives
\* no value
C23_Witness ==
    /\ pc = "decoded"
    /\ node_role = "Client"
    /\ frame.data[1] = \H80
    /\ decoded.kind = "Abort"
    /\ \E e \in DataWithCommand(\H80) :
           try_decode_rx_frame(self_node_id, node_role, Frame_new(frame.id, e)) = None

\* a server decodes a request kind
C23_ServerKindReached ==
    /\ pc = "decoded"
    /\ node_role = "Server"
    /\ frame.data[1] = \H40
    /\ decoded.kind = "UploadRequest"

====
